---- MODULE Spec2Model ----
(***************************************************************************)
(* tljh-config (src/tljh/config.py): the mutation engine that edits the    *)
(* nested config document by dot separated key paths, and the write        *)
(* commands that lock, load, mutate, validate and rewrite config.yaml.     *)
(*                                                                         *)
(* Python strings are sequences of one-character strings, so that          *)
(* str.split(".") and the substring test of `in` are computed.  A document *)
(* node is a record [k |-> kind, v |-> payload]:                           *)
(*   "dict": v is a function from keys (strings) to nodes                  *)
(*   "list": v is a sequence of nodes                                      *)
(*   "str" : v is a string          "int" : v is an integer                *)
(*   "bool": v is a BOOLEAN         "none": Python's None (v is 0)         *)
(***************************************************************************)
EXTENDS Integers, Sequences, FiniteSets, TLC

\* ------------------------------------------------------------------ values

PyDict(f) == [k |-> "dict", v |-> f]
PyList(s) == [k |-> "list", v |-> s]
PyStr(s) == [k |-> "str", v |-> s]
PyInt(n) == [k |-> "int", v |-> n]
PyBool(b) == [k |-> "bool", v |-> b]
PyNone == [k |-> "none", v |-> 0]
EmptyDict == PyDict(<<>>)

\* isinstance(item, Mapping)
_is_dict(item) == item.k = "dict"

\* isinstance(item, Sequence): a Python str is a Sequence too.
_is_list(item) == item.k \in {"list", "str"}

\* Python's ==, on the values a document holds: bool is a subclass of int
\* (True == 1, False == 0); otherwise equality is structural.
PyNum(x) == IF x.k = "bool" THEN (IF x.v THEN 1 ELSE 0) ELSE x.v

PyEq(x, y) ==
    IF x.k \in {"int", "bool"} /\ y.k \in {"int", "bool"}
    THEN PyNum(x) = PyNum(y)
    ELSE x = y

\* s occurs in t as a contiguous substring (Python: s in t, both str).
IsSubstr(s, t) ==
    \E i \in 0..Len(t) :
        /\ i + Len(s) <= Len(t)
        /\ \A j \in 1..Len(s) : t[i + j] = s[j]

\* Python's  key in node  for a str key: "yes", "no", or the exception.
Contains(node, key) ==
    CASE node.k = "dict" -> IF key \in DOMAIN node.v THEN "yes" ELSE "no"
      [] node.k = "list" ->
            IF \E i \in 1..Len(node.v) : PyEq(node.v[i], PyStr(key))
            THEN "yes" ELSE "no"
      [] node.k = "str" -> IF IsSubstr(key, node.v) THEN "yes" ELSE "no"
      [] OTHER -> "TypeError"

\* ------------------------------------------------------------- references
\* cur_part / conf_iter are references into the working copy.  A reference
\* is the sequence of keys that leads to the object from the root; every
\* object on the way is a dict, since only a dict can be subscripted by a
\* str key.

RECURSIVE GetAt(_, _)
GetAt(root, at) ==
    IF at = <<>> THEN root ELSE GetAt(root.v[Head(at)], Tail(at))

RECURSIVE Resolves(_, _)
Resolves(root, at) ==
    IF at = <<>> THEN TRUE
    ELSE /\ root.k = "dict"
         /\ Head(at) \in DOMAIN root.v
         /\ Resolves(root.v[Head(at)], Tail(at))

Upd(f, key, val) ==
    [x \in (DOMAIN f) \cup {key} |-> IF x = key THEN val ELSE f[x]]

Del(f, key) == [x \in (DOMAIN f) \ {key} |-> f[x]]

\* ref[key] = val, ref being the dict at `at`
RECURSIVE PutAt(_, _, _, _)
PutAt(root, at, key, val) ==
    IF at = <<>> THEN PyDict(Upd(root.v, key, val))
    ELSE PyDict([root.v EXCEPT ![Head(at)] = PutAt(@, Tail(at), key, val)])

\* del ref[key], ref being the dict at `at`
RECURSIVE DelAt(_, _, _)
DelAt(root, at, key) ==
    IF at = <<>> THEN PyDict(Del(root.v, key))
    ELSE PyDict([root.v EXCEPT ![Head(at)] = DelAt(@, Tail(at), key)])

\* ---------------------------------------------------------- Path Resolver

\* property_path.split("."): "" splits to [""], "a..b" to ["a", "", "b"].
RECURSIVE SplitFrom(_, _, _)
SplitFrom(s, i, cur) ==
    IF i > Len(s) THEN <<cur>>
    ELSE IF s[i] = "." THEN <<cur>> \o SplitFrom(s, i + 1, <<>>)
    ELSE SplitFrom(s, i + 1, Append(cur, s[i]))

split(property_path) == SplitFrom(property_path, 1, <<>>)

\* -------------------------------------------------------- Mutation Engine
\* A walk ends in [exc |-> "" or the exception raised, cur |-> the working
\* copy as the walk left it].

NoExc == ""
PathNotFound == "ValueError: does not exist in config!"
NotAList == "ValueError: is not a list"
ValueNotFound == "ValueError: list.remove(x): x not in list"
TypeError == "TypeError"
AttributeError == "AttributeError"
KeyError == "KeyError"

Ends(exc, cur) == [exc |-> exc, cur |-> cur]

\* A copy that is the caller's document itself (config_copy = config).
deepcopy_alias(config) == [obj |-> config, alias |-> TRUE]

\* config_copy = deepcopy(config): the working copy shares nothing with the
\* caller's document.
deepcopy(config) == [obj |-> config, alias |-> FALSE]

\* What a mutation returns to its caller: the exception if any, the document
\* returned (None when it raised), and `config`, the caller's own document
\* as it is after the call.
Outcome(config, copy, walk) ==
    [exc |-> walk.exc,
     ret |-> IF walk.exc = NoExc THEN walk.cur ELSE PyNone,
     config |-> IF copy.alias THEN walk.cur ELSE config]

\* cur_part[cur_path], cur_part a dict holding cur_path
Item(copy, at, key) == GetAt(copy, at).v[key]

\* The loop of set_item_in_config from component i on, cur_part being the
\* object at `at`.  Subscripting or assigning by a str key raises TypeError
\* on everything but a dict (only the root can be anything else here: below
\* it the loop steps into dicts only).
RECURSIVE SetWalk(_, _, _, _, _)
SetWalk(copy, at, comps, i, value) ==
    LET cur_part == GetAt(copy, at)
        cur_path == comps[i]
    IN  IF cur_part.k # "dict" THEN Ends(TypeError, copy)
        ELSE IF i = Len(comps)
        THEN Ends(NoExc, PutAt(copy, at, cur_path, value))
        ELSE IF \/ Contains(cur_part, cur_path) = "no"
                \/ ~_is_dict(Item(copy, at, cur_path))
        THEN SetWalk(PutAt(copy, at, cur_path, EmptyDict),
                     Append(at, cur_path), comps, i + 1, value)
        ELSE SetWalk(copy, Append(at, cur_path), comps, i + 1, value)

set_item_in_config(config, property_path, value) ==
    LET path_components == split(property_path)
        config_copy == deepcopy(config)
    IN  Outcome(config, config_copy,
                SetWalk(config_copy.obj, <<>>, path_components, 1, value))

\* remove_empty_configs(configuration, path), conf_iter being the object at
\* `at` and the loop standing at path[i].  The recursive call deletes only
\* keys that hold {}, so conf_iter is cut off from configuration only once
\* it is {} itself; subscripting it then raises KeyError.
RECURSIVE EmptyLoop(_, _, _, _)
EmptyLoop(configuration, at, path, i) ==
    IF i > Len(path) THEN Ends(NoExc, configuration)
    ELSE IF ~Resolves(configuration, at) THEN Ends(KeyError, configuration)
    ELSE
    LET conf_iter == GetAt(configuration, at)
        cur_path == path[i]
    IN  IF conf_iter.k # "dict" THEN Ends(TypeError, configuration)
        ELSE IF cur_path \notin DOMAIN conf_iter.v
        THEN Ends(KeyError, configuration)
        ELSE IF conf_iter.v[cur_path] = EmptyDict
        THEN LET deleted == DelAt(configuration, at, cur_path)
                 shorter == SubSeq(path, 1, Len(path) - 1)
                 inner == IF shorter = <<>> THEN Ends(NoExc, deleted)
                          ELSE EmptyLoop(deleted, <<>>, shorter, 1)
             IN  IF inner.exc # NoExc THEN inner
                 ELSE EmptyLoop(inner.cur, at, path, i + 1)
        ELSE EmptyLoop(configuration, Append(at, cur_path), path, i + 1)

\* A pruning that stops after one level: the parent is deleted if it is
\* empty, and the recursive call is left out.
remove_empty_configs_one_level(configuration, path) ==
    IF path = <<>> THEN Ends(NoExc, configuration)
    ELSE LET at == SubSeq(path, 1, Len(path) - 1)
             last == path[Len(path)]
         IN  IF GetAt(configuration, at).v[last] = EmptyDict
             THEN Ends(NoExc, DelAt(configuration, at, last))
             ELSE Ends(NoExc, configuration)

\* remove_empty_configs(configuration, path): "if not path: return", else
\* the loop.
remove_empty_configs(configuration, path) ==
    IF path = <<>> THEN Ends(NoExc, configuration)
    ELSE EmptyLoop(configuration, <<>>, path, 1)

\* The loop of unset_item_from_config from component i on.  `in` raises
\* TypeError on a scalar other than str; on a list it is membership and on
\* a str the substring test, and deleting from or subscripting either by a
\* str key raises TypeError.
RECURSIVE UnsetWalk(_, _, _, _)
UnsetWalk(copy, at, comps, i) ==
    LET cur_part == GetAt(copy, at)
        cur_path == comps[i]
        has == Contains(cur_part, cur_path)
    IN  IF has = "TypeError" THEN Ends(TypeError, copy)
        ELSE IF has = "no" THEN Ends(PathNotFound, copy)
        ELSE IF cur_part.k # "dict" THEN Ends(TypeError, copy)
        ELSE IF i = Len(comps)
        THEN remove_empty_configs(DelAt(copy, at, cur_path),
                                  SubSeq(comps, 1, Len(comps) - 1))
        ELSE UnsetWalk(copy, Append(at, cur_path), comps, i + 1)

unset_item_from_config(config, property_path) ==
    LET path_components == split(property_path)
        config_copy == deepcopy(config)
    IN  Outcome(config, config_copy,
                UnsetWalk(config_copy.obj, <<>>, path_components, 1))

\* The final component of add_item_to_config: cur_part[cur_path] becomes []
\* unless it passes _is_list, then .append(value), which a str does not have.
AddFinal(copy, at, cur_path, value) ==
    LET fresh == \/ Contains(GetAt(copy, at), cur_path) = "no"
                 \/ ~_is_list(Item(copy, at, cur_path))
        copy1 == IF fresh THEN PutAt(copy, at, cur_path, PyList(<<>>)) ELSE copy
        target == Item(copy1, at, cur_path)
    IN  IF target.k # "list" THEN Ends(AttributeError, copy1)
        ELSE Ends(NoExc, PutAt(copy1, at, cur_path,
                               PyList(Append(target.v, value))))

RECURSIVE AddWalk(_, _, _, _, _)
AddWalk(copy, at, comps, i, value) ==
    LET cur_part == GetAt(copy, at)
        cur_path == comps[i]
    IN  IF cur_part.k # "dict" THEN Ends(TypeError, copy)
        ELSE IF i = Len(comps) THEN AddFinal(copy, at, cur_path, value)
        ELSE IF \/ Contains(cur_part, cur_path) = "no"
                \/ ~_is_dict(Item(copy, at, cur_path))
        THEN AddWalk(PutAt(copy, at, cur_path, EmptyDict),
                     Append(at, cur_path), comps, i + 1, value)
        ELSE AddWalk(copy, Append(at, cur_path), comps, i + 1, value)

add_item_to_config(config, property_path, value) ==
    LET path_components == split(property_path)
        config_copy == deepcopy(config)
    IN  Outcome(config, config_copy,
                AddWalk(config_copy.obj, <<>>, path_components, 1, value))

\* list.remove(value): the index of the first item equal to value, 0 if none
FirstIndex(items, value) ==
    IF \E i \in 1..Len(items) : PyEq(items[i], value)
    THEN CHOOSE i \in 1..Len(items) :
            /\ PyEq(items[i], value)
            /\ \A j \in 1..(i - 1) : ~PyEq(items[j], value)
    ELSE 0

\* A remove that takes out the last equal item instead of the first.
list_remove_last(items, value) ==
    LET n == IF \E i \in 1..Len(items) : PyEq(items[i], value)
             THEN CHOOSE i \in 1..Len(items) :
                    /\ PyEq(items[i], value)
                    /\ \A j \in (i + 1)..Len(items) : ~PyEq(items[j], value)
             ELSE 0
    IN  [found |-> n # 0,
         items |-> IF n = 0 THEN items
                   ELSE SubSeq(items, 1, n - 1) \o SubSeq(items, n + 1, Len(items))]

\* list.remove(value): whether an item was found, and the items left.
list_remove(items, value) ==
    LET n == FirstIndex(items, value)
    IN  [found |-> n # 0,
         items |-> IF n = 0 THEN items
                   ELSE SubSeq(items, 1, n - 1) \o SubSeq(items, n + 1, Len(items))]

\* The final component of remove_item_from_config.
RemoveFinal(copy, at, cur_path, value) ==
    LET cur_part == GetAt(copy, at)
        has == Contains(cur_part, cur_path)
    IN  IF has = "TypeError" THEN Ends(TypeError, copy)
        ELSE IF has = "no" THEN Ends(NotAList, copy)
        ELSE IF cur_part.k # "dict" THEN Ends(TypeError, copy)
        ELSE IF ~_is_list(cur_part.v[cur_path]) THEN Ends(NotAList, copy)
        ELSE IF cur_part.v[cur_path].k # "list" THEN Ends(AttributeError, copy)
        ELSE LET removed == list_remove(cur_part.v[cur_path].v, value)
             IN  IF ~removed.found THEN Ends(ValueNotFound, copy)
                 ELSE Ends(NoExc, PutAt(copy, at, cur_path, PyList(removed.items)))

RECURSIVE RemoveWalk(_, _, _, _, _)
RemoveWalk(copy, at, comps, i, value) ==
    LET cur_part == GetAt(copy, at)
        cur_path == comps[i]
        has == Contains(cur_part, cur_path)
    IN  IF i = Len(comps) THEN RemoveFinal(copy, at, cur_path, value)
        ELSE IF has = "TypeError" THEN Ends(TypeError, copy)
        ELSE IF has = "no" THEN Ends(PathNotFound, copy)
        ELSE IF cur_part.k # "dict" THEN Ends(TypeError, copy)
        ELSE IF ~_is_dict(cur_part.v[cur_path]) THEN Ends(PathNotFound, copy)
        ELSE RemoveWalk(copy, Append(at, cur_path), comps, i + 1, value)

remove_item_from_config(config, property_path, value) ==
    LET path_components == split(property_path)
        config_copy == deepcopy(config)
    IN  Outcome(config, config_copy,
                RemoveWalk(config_copy.obj, <<>>, path_components, 1, value))

\* ----------------------------------------------------- Command Dispatcher

Digits == {"0", "1", "2", "3", "4", "5", "6", "7", "8", "9"}

DigitValue(c) ==
    CASE c = "0" -> 0 [] c = "1" -> 1 [] c = "2" -> 2 [] c = "3" -> 3
      [] c = "4" -> 4 [] c = "5" -> 5 [] c = "6" -> 6 [] c = "7" -> 7
      [] c = "8" -> 8 [] c = "9" -> 9

RECURSIVE DecimalValue(_)
DecimalValue(s) ==
    IF s = <<>> THEN 0
    ELSE 10 * DecimalValue(SubSeq(s, 1, Len(s) - 1)) + DigitValue(s[Len(s)])

\* str.lower() on the letters of "true" and "false"
LowerChar(c) ==
    CASE c = "T" -> "t" [] c = "R" -> "r" [] c = "U" -> "u" [] c = "E" -> "e"
      [] c = "F" -> "f" [] c = "A" -> "a" [] c = "L" -> "l" [] c = "S" -> "s"
      [] OTHER -> c

Lower(s) == [i \in 1..Len(s) |-> LowerChar(s[i])]

\* ^\d+$
IsDigits(s) == Len(s) >= 1 /\ \A i \in 1..Len(s) : s[i] \in Digits

\* ^\d+\.\d*$
IsFloatText(s) ==
    \E d \in 2..Len(s) :
        /\ s[d] = "."
        /\ \A i \in 1..(d - 1) : s[i] \in Digits
        /\ \A i \in (d + 1)..Len(s) : s[i] \in Digits

\* parse_value(value_str): the typed value of a command line argument.  A
\* float keeps its text as payload.
parse_value(value_str) ==
    IF IsDigits(value_str) THEN PyInt(DecimalValue(value_str))
    ELSE IF IsFloatText(value_str) THEN [k |-> "float", v |-> value_str]
    ELSE IF Lower(value_str) = <<"t", "r", "u", "e">> THEN PyBool(TRUE)
    ELSE IF Lower(value_str) = <<"f", "a", "l", "s", "e">> THEN PyBool(FALSE)
    ELSE PyStr(value_str)

\* -------------------------------------------------------- Validator Hook

\* jsonschema.validate(instance=config, schema=config_schema) passes.  The
\* schema module is not part of the sources at hand; of it the model keeps
\* that the root is an object and that a recognised top-level key ("a" here)
\* must hold an object.
SchemaOk(config) ==
    /\ config.k = "dict"
    /\ (<<"a">> \in DOMAIN config.v => config.v[<<"a">>].k = "dict")

\* A hook that swallows the validation error whatever the flag says.
validate_config_never_exits(config, validate) == "return"

\* validate_config(config, validate): "sys.exit(1)" or "return".  The schema
\* is consulted in both cases; the flag only decides what a failure does.
validate_config(config, validate) ==
    IF ~SchemaOk(config) /\ validate THEN "sys.exit(1)" ELSE "return"

\* ----------------------------------------------------- Persistence Layer
\* config.yaml is absent, holds a complete serialised document, or is
\* empty: what open(config_path, "w") leaves until yaml.dump has written.

Absent == [st |-> "absent", doc |-> PyNone]
Empty == [st |-> "empty", doc |-> PyNone]
Complete(doc) == [st |-> "complete", doc |-> doc]

\* get_current_config(config_path): {} when the file does not exist;
\* yaml.load of an empty stream is None.
get_current_config(f) ==
    CASE f.st = "absent" -> EmptyDict
      [] f.st = "empty" -> PyNone
      [] OTHER -> f.doc

\* The mutation a write command applies to the loaded config.
Mutate(action, config, key_path, value) ==
    CASE action = "set" -> set_item_in_config(config, key_path, value)
      [] action = "unset" -> unset_item_from_config(config, key_path)
      [] action = "add-item" -> add_item_to_config(config, key_path, value)
      [] action = "remove-item" -> remove_item_from_config(config, key_path, value)

Actions == {"set", "unset", "add-item", "remove-item"}

\* ------------------------------------------------------------------ bounds

\* add-item is not drawn once it would make a list longer than this
MaxList == 2
\* commands issued one after another in SpecSeq
MaxCalls == 2

RECURSIVE ListsWithin(_, _)
ListsWithin(node, n) ==
    CASE node.k = "list" -> Len(node.v) <= n
      [] node.k = "dict" -> \A key \in DOMAIN node.v : ListsWithin(node.v[key], n)
      [] OTHER -> TRUE

\* ------------------------------------------------------------ the machine

VARIABLES
    file,       \* the content of config.yaml
    lock,       \* who holds config.yaml.lock, or "free"
    pc,         \* where each tljh-config process stands
    cmd,        \* its command line: action, key_path, value, validate
    out,        \* what the mutation gave it: exc, ret, config
    exit,       \* how it ended: exit code and why
    shown,      \* the kind of value the last `show` loaded
    key_path,   \* SpecSeq: the key path of the session
    calls,      \* SpecSeq: the commands run so far, each with its result
    applied     \* history: the initial content of the file with the mutations
                \* of the commands that completed successfully applied one
                \* after another (the lock is held until a command completes,
                \* so the order of completion is that of acquisition)

vars == <<file, lock, pc, cmd, out, exit, shown, key_path, calls, applied>>
seqVars == <<key_path, calls>>

Procs == {"p1", "p2"}
NoCmd == [action |-> "", key_path |-> <<>>, value |-> PyNone, validate |-> TRUE]
NoOut == [exc |-> NoExc, ret |-> PyNone, config |-> PyNone]
Running == [code |-> -1, why |-> ""]
Exited(code, why) == [code |-> code, why |-> why]
InLock == {"locked", "mutated", "write", "dump"}

\* the arguments the interleaved commands are drawn from
CmdPaths == {<<"a">>, <<"a", ".", "b">>}
CmdValues == {parse_value(<<"5">>), parse_value(<<"b">>)}

Init ==
    /\ file = Absent
    /\ lock = "free"
    /\ pc = [p \in Procs |-> "start"]
    /\ cmd = [p \in Procs |-> NoCmd]
    /\ out = [p \in Procs |-> NoOut]
    /\ exit = [p \in Procs |-> Running]
    /\ shown = ""
    /\ key_path = <<>>
    /\ calls = <<>>
    /\ applied = Absent

\* An acquire that never looks at the holder.
CanAcquire_unchecked(holder, p) == TRUE

\* FileLock(lock_file).acquire(timeout=timeout) gets the lock: nobody holds it.
CanAcquire(holder, p) == holder = "free"

\* A release that is skipped when the body raises.
release_unless_raised(holder, how) == IF how = "raise" THEN holder ELSE "free"

\* Leaving `with FileLock(lock_file).acquire(...)`: the lock is released,
\* whether the body returned ("return") or raised ("raise": an exception or
\* the SystemExit of sys.exit).
release(holder, how) == "free"

\* with config_file_lock(config_path): the lock is free and taken.
Acquire(p) ==
    /\ pc[p] = "start"
    /\ CanAcquire(lock, p)
    /\ lock' = p
    /\ pc' = [pc EXCEPT ![p] = "locked"]
    /\ UNCHANGED <<file, cmd, out, exit, shown, seqVars, applied>>

\* except Timeout: another instance held the lock for the whole timeout;
\* the message is printed and sys.exit(1) ends the process.
LockTimeout(p) ==
    /\ pc[p] = "start"
    /\ ~CanAcquire(lock, p)
    /\ pc' = [pc EXCEPT ![p] = "exited"]
    /\ exit' = [exit EXCEPT ![p] = Exited(1, "LockBusy")]
    /\ UNCHANGED <<file, lock, cmd, out, shown, seqVars, applied>>

\* config = get_current_config(config_path); config = <mutation>(config, ...)
LoadAndMutate(p) ==
    /\ pc[p] = "locked"
    /\ \E action \in Actions, path \in CmdPaths, value \in CmdValues,
          validate \in BOOLEAN :
          LET result == Mutate(action, get_current_config(file), path, value)
          IN  /\ action = "unset" => value = parse_value(<<"5">>)
              /\ result.exc = NoExc => ListsWithin(result.ret, MaxList)
              /\ cmd' = [cmd EXCEPT ![p] =
                            [action |-> action, key_path |-> path,
                             value |-> IF action = "unset" THEN PyNone ELSE value,
                             validate |-> validate]]
              /\ out' = [out EXCEPT ![p] = result]
    /\ pc' = [pc EXCEPT ![p] = "mutated"]
    /\ UNCHANGED <<file, lock, exit, shown, seqVars, applied>>

\* The process ends: its locals are gone.
Ended(p, code, why) ==
    /\ pc' = [pc EXCEPT ![p] = "exited"]
    /\ exit' = [exit EXCEPT ![p] = Exited(code, why)]
    /\ cmd' = [cmd EXCEPT ![p] = NoCmd]
    /\ out' = [out EXCEPT ![p] = NoOut]

\* The mutation raised: the exception leaves the with block and, uncaught
\* in main, ends the process with a traceback and exit code 1.
MutationRaises(p) ==
    /\ pc[p] = "mutated"
    /\ out[p].exc # NoExc
    /\ lock' = release(lock, "raise")
    /\ Ended(p, 1, out[p].exc)
    /\ UNCHANGED <<file, shown, seqVars, applied>>

\* validate_config(config, validate)
Validate(p) ==
    /\ pc[p] = "mutated"
    /\ out[p].exc = NoExc
    /\ \/ /\ validate_config(out[p].ret, cmd[p].validate) = "sys.exit(1)"
          /\ lock' = release(lock, "raise")
          /\ Ended(p, 1, "ValidationFailed")
       \/ /\ validate_config(out[p].ret, cmd[p].validate) = "return"
          /\ pc' = [pc EXCEPT ![p] = "write"]
          /\ UNCHANGED <<lock, cmd, out, exit>>
    /\ UNCHANGED <<file, shown, seqVars, applied>>

\* open(config_path, "w"): the file is created or truncated.
OpenForWrite(p) ==
    /\ pc[p] = "write"
    /\ file' = Empty
    /\ pc' = [pc EXCEPT ![p] = "dump"]
    /\ UNCHANGED <<lock, cmd, out, exit, shown, seqVars, applied>>

\* The content f with the mutation of command c applied to its document (f
\* itself if the mutation raises there).
Applying(f, c) ==
    LET result == Mutate(c.action, get_current_config(f), c.key_path, c.value)
    IN  IF result.exc = NoExc THEN Complete(result.ret) ELSE f

\* yaml.dump(config, f), the file is closed, the with blocks are left.
Dump(p) ==
    /\ pc[p] = "dump"
    /\ file' = Complete(out[p].ret)
    /\ lock' = release(lock, "return")
    /\ Ended(p, 0, "ok")
    /\ applied' = Applying(applied, cmd[p])
    /\ UNCHANGED <<shown, seqVars>>

\* yaml.dump fails (disk full, I/O error): OSError leaves the with blocks.
DumpFails(p) ==
    /\ pc[p] = "dump"
    /\ lock' = release(lock, "raise")
    /\ Ended(p, 1, "OSError")
    /\ UNCHANGED <<file, shown, seqVars, applied>>

\* tljh-config is invoked again.
Relaunch(p) ==
    /\ pc[p] = "exited"
    /\ pc' = [pc EXCEPT ![p] = "start"]
    /\ exit' = [exit EXCEPT ![p] = Running]
    /\ UNCHANGED <<file, lock, cmd, out, shown, seqVars, applied>>

\* show_config: get_current_config without the lock (the hub reads the file
\* the same way).
Show ==
    /\ shown' = get_current_config(file).k
    /\ UNCHANGED <<file, lock, pc, cmd, out, exit, seqVars, applied>>

Next ==
    \/ \E p \in Procs : Acquire(p)
    \/ \E p \in Procs : LockTimeout(p)
    \/ \E p \in Procs : LoadAndMutate(p)
    \/ \E p \in Procs : MutationRaises(p)
    \/ \E p \in Procs : Validate(p)
    \/ \E p \in Procs : OpenForWrite(p)
    \/ \E p \in Procs : Dump(p)
    \/ \E p \in Procs : DumpFails(p)
    \/ \E p \in Procs : Relaunch(p)
    \/ Show

Spec == Init /\ [][Next]_vars

\* ------------------------------------------------- one command at a time
\* A write command run to its end with nobody else at the file: the lock is
\* free and taken, and the write itself does not fail.

\* set_config_value / unset_config_value / add_config_value /
\* remove_config_value: the call with its arguments, the file before, what
\* the mutation gave, how the process ended and the file after.
RunCommand(f, action, path, value, validate) ==
    LET result == Mutate(action, get_current_config(f), path, value)
        raised == result.exc # NoExc
        rejected == ~raised /\ validate_config(result.ret, validate) = "sys.exit(1)"
    IN  [action |-> action, value |-> value, validate |-> validate,
         before |-> f, out |-> result,
         exit |-> IF raised THEN Exited(1, result.exc)
                  ELSE IF rejected THEN Exited(1, "ValidationFailed")
                  ELSE Exited(0, "ok"),
         after |-> IF raised \/ rejected THEN f ELSE Complete(result.ret)]

v1 == <<"v", "1">>
v2 == <<"v", "2">>
Key(c) == <<c>>
Five == PyInt(5)
Map1(k1, n1) == PyDict(Key(k1) :> n1)
Map2(k1, n1, k2, n2) == PyDict(Key(k1) :> n1 @@ Key(k2) :> n2)

SeqPaths ==
    { <<>>, <<"a">>, <<"a", ".", "b">>, <<"a", ".", "b", ".", "c">>,
      <<"x", ".", "y">> }

SeqValues == {parse_value(<<"5">>), parse_value(v1), parse_value(v2)}

\* Documents config.yaml may hold when the session starts: written by
\* earlier commands or by hand (the file is the administrator's to edit), so
\* a string, a list or an empty mapping may stand anywhere.  The root is a
\* mapping: an empty file (root None) is left to Spec.
SeedDocs ==
    { EmptyDict,
      Map1("a", Map1("b", Map1("c", Five))),
      Map1("a", Map1("b", Map2("c", Five, "k", Five))),
      Map1("a", Map2("b", Map1("c", Five), "k", Five)),
      Map1("a", Map2("b", EmptyDict, "k", Five)),
      Map1("a", Map1("b", Map1("c", EmptyDict))),
      Map2("a", EmptyDict, "x", Map1("y", PyList(<<>>))),
      Map1("a", Five),
      Map1("a", PyStr(<<"b">>)),
      Map1("a", PyList(<<PyStr(<<"b">>)>>)),
      Map1("a", Map1("b", PyStr(<<"s">>))),
      Map1("a", Map1("b", PyList(<<PyStr(v2), PyStr(v1), PyStr(v2)>>))),
      Map1("x", Map1("y", PyList(<<PyStr(v1), PyStr(v2)>>))),
      Map1("x", Map1("y", PyList(<<PyStr(v1), PyStr(v2), PyStr(v1)>>))),
      Map2("x", Map1("y", Five), "a", PyList(<<Five, PyStr(v1)>>)),
      PyDict(<<>> :> Five),
      PyDict(<<>> :> PyList(<<PyStr(v1)>>)) }

InitSeq ==
    /\ file \in {Absent} \cup {Complete(d) : d \in SeedDocs}
    /\ key_path \in SeqPaths
    /\ calls = <<>>
    /\ lock = "free"
    /\ pc = [p \in Procs |-> "start"]
    /\ cmd = [p \in Procs |-> NoCmd]
    /\ out = [p \in Procs |-> NoOut]
    /\ exit = [p \in Procs |-> Running]
    /\ shown = ""
    /\ applied = file

Called(call) ==
    /\ Len(calls) < MaxCalls
    /\ calls' = Append(calls, call)
    /\ file' = call.after
    /\ UNCHANGED <<lock, pc, cmd, out, exit, shown, key_path, applied>>

\* tljh-config set <key_path> <value>
SetCmd ==
    \E value \in SeqValues, validate \in BOOLEAN :
        Called(RunCommand(file, "set", key_path, value, validate))

\* tljh-config unset <key_path>
UnsetCmd ==
    \E validate \in BOOLEAN :
        Called(RunCommand(file, "unset", key_path, PyNone, validate))

\* tljh-config add-item <key_path> <value>
AddItemCmd ==
    \E value \in SeqValues, validate \in BOOLEAN :
        Called(RunCommand(file, "add-item", key_path, value, validate))

\* tljh-config remove-item <key_path> <value>
RemoveItemCmd ==
    \E value \in SeqValues, validate \in BOOLEAN :
        Called(RunCommand(file, "remove-item", key_path, value, validate))

NextSeq == SetCmd \/ UnsetCmd \/ AddItemCmd \/ RemoveItemCmd

SpecSeq == InitSeq /\ [][NextSeq]_vars

\* ------------------------------------------------------------- properties

Others(p) == Procs \ {p}

\* the segments of the session's key path, and what a document holds there
P == split(key_path)
NoNode == [k |-> "absent", v |-> 0]
NodeAt(doc, comps) == IF Resolves(doc, comps) THEN GetAt(doc, comps) ELSE NoNode
ItemsAt(doc, comps) ==
    IF NodeAt(doc, comps).k = "list" THEN NodeAt(doc, comps).v ELSE <<>>
Loaded(call) == get_current_config(call.before)

\* C1: mutual exclusion and LockBusy.  At no time are two write commands
\* between their load and their write: whoever is past the acquisition
\* holds the lock, and nobody else is.  A command ends with LockBusy only
\* from before its load, while another process holds the lock, with exit
\* code 1, and that step changes neither the file nor a loaded or mutated
\* config.
C1_LockBusyNeverWrites ==
    /\ [](\A p \in Procs : pc[p] \in InLock =>
            /\ lock = p
            /\ \A q \in Others(p) : pc[q] \notin InLock)
    /\ [][\A p \in Procs :
            (exit'[p].why = "LockBusy" /\ exit[p].why # "LockBusy") =>
                /\ pc[p] = "start"
                /\ lock \in Others(p)
                /\ exit'[p].code = 1
                /\ file' = file
                /\ cmd'[p] = NoCmd /\ out'[p] = NoOut
                /\ lock' = lock]_vars

\* C1 witness: one command has ended with LockBusy while the other stands
\* between its load and its write.
C1_Witness ==
    \E p \in Procs : \E q \in Others(p) :
        /\ exit[p] = Exited(1, "LockBusy")
        /\ pc[q] \in {"mutated", "write", "dump"}

\* C3: the config file never holds empty or partial content, and a reader
\* who takes no lock never loads such content.
C3_NeverHalfWritten ==
    /\ file.st \in {"absent", "complete"}
    /\ shown # "none"

\* C4: the lock is released on every exit path.  A process that is not
\* inside the with block does not hold the lock, so once no command is
\* running the lock is free and a command about to start can take it.
C4_LockReleasedOnEveryExit ==
    /\ \A p \in Procs : pc[p] \notin InLock => lock # p
    /\ (\A p \in Procs : pc[p] \notin InLock) =>
            /\ lock = "free"
            /\ \A q \in Procs : pc[q] = "start" => ENABLED Acquire(q)

\* C4 witness: one command has ended by a validation failure, the other by
\* an I/O failure in the write, and the lock is free.
C4_Witness ==
    \E p \in Procs : \E q \in Others(p) :
        /\ exit[p] = Exited(1, "ValidationFailed")
        /\ exit[q] = Exited(1, "OSError")
        /\ lock = "free"

Pruned(doc, comps) ==
    \A n \in 1..(Len(comps) - 1) :
        NodeAt(doc, SubSeq(comps, 1, n)) # EmptyDict

\* every key off the chain of comps holds in r what it held in d, and r has
\* no key that d had not
RECURSIVE OffChainSame(_, _, _, _)
OffChainSame(d, r, comps, i) ==
    /\ d.k = "dict" /\ r.k = "dict"
    /\ DOMAIN r.v \subseteq DOMAIN d.v
    /\ \A key \in (DOMAIN d.v) \ {comps[i]} :
            key \in DOMAIN r.v /\ r.v[key] = d.v[key]
    /\ IF i = Len(comps) THEN comps[i] \notin DOMAIN r.v
       ELSE comps[i] \in DOMAIN r.v =>
                OffChainSame(d.v[comps[i]], r.v[comps[i]], comps, i + 1)

\* C5: after a successful unset(D, P) the key at P is gone, no proper prefix
\* of P addresses an empty mapping, and every key off P's chain is as in D.
\* unset(set(D, P, V), P) succeeds and leaves no empty mapping on the chain.
\* unset("a.b.c") on {a: {b: {c: 5}}} gives {}.
C5_UnsetPrunesToRoot ==
    \A i \in DOMAIN calls :
        LET c == calls[i]
            undone == unset_item_from_config(c.out.ret, key_path)
        IN  /\ (c.action = "unset" /\ c.out.exc = NoExc) =>
                    /\ ~Resolves(c.out.ret, P)
                    /\ Pruned(c.out.ret, P)
                    /\ OffChainSame(Loaded(c), c.out.ret, P, 1)
            /\ (c.action = "set" /\ c.out.exc = NoExc) =>
                    /\ undone.exc = NoExc
                    /\ ~Resolves(undone.ret, P)
                    /\ Pruned(undone.ret, P)
            /\ ( /\ c.action = "unset"
                 /\ key_path = <<"a", ".", "b", ".", "c">>
                 /\ Loaded(c) = Map1("a", Map1("b", Map1("c", Five))) ) =>
                    c.out.ret = EmptyDict

\* C5 witness: set("a.b.c") on the empty document made two mappings to host
\* the key, and the unset that followed pruned both: the document is {}.
C5_Witness ==
    /\ Len(calls) = 2
    /\ key_path = <<"a", ".", "b", ".", "c">>
    /\ calls[1].action = "set" /\ calls[1].before = Absent
    /\ calls[1].after = Complete(Map1("a", Map1("b", Map1("c", Five))))
    /\ calls[2].action = "unset" /\ calls[2].out.exc = NoExc
    /\ calls[2].after = Complete(EmptyDict)

\* C6: add_item(D, P, V) always succeeds and leaves a list at P: the list D
\* had there with V appended, or [V] when D had no list there (the key
\* absent, or any value that is not a list, a string included).
C6_AddItemAlwaysList ==
    \A i \in DOMAIN calls :
        LET c == calls[i]
        IN  c.action = "add-item" =>
                /\ c.out.exc = NoExc
                /\ NodeAt(c.out.ret, P) =
                        PyList(Append(ItemsAt(Loaded(c), P), c.value))

\* C7: a write command given the empty key path fails (whatever the error
\* is called) and the config file is as before.
C7_EmptyPathRejected ==
    \A i \in DOMAIN calls :
        key_path = <<>> =>
            /\ calls[i].exit.code # 0
            /\ calls[i].after = calls[i].before

\* C8: unset on a key path that the document does not hold fails with
\* PathNotFound, whatever node the walk has reached; the document is
\* unchanged and the file is not written.
C8_UnsetAbsentIsPathNotFound ==
    \A i \in DOMAIN calls :
        LET c == calls[i]
        IN  (c.action = "unset" /\ ~Resolves(Loaded(c), P)) =>
                /\ c.out.exc = PathNotFound
                /\ c.out.config = Loaded(c)
                /\ c.after = c.before

\* items without its n-th item
Without(items, n) == SubSeq(items, 1, n - 1) \o SubSeq(items, n + 1, Len(items))

\* C9: remove_item(D, P, V) on a list at P.  If no item equals V it fails
\* with ValueNotFound, the document is unchanged and the command leaves the
\* file as it was, with exit code 1.  If some item equals V, exactly the
\* first such item is taken out, the others keep their order, and nothing
\* else in the document changes.
C9_RemoveItemFirstOccurrence ==
    \A i \in DOMAIN calls :
        LET c == calls[i]
            old == NodeAt(Loaded(c), P)
            hits == {n \in 1..Len(old.v) : PyEq(old.v[n], c.value)}
        IN  (c.action = "remove-item" /\ old.k = "list") =>
                IF hits = {}
                THEN /\ c.out.exc = ValueNotFound
                     /\ c.out.config = Loaded(c)
                     /\ c.exit = Exited(1, ValueNotFound)
                     /\ c.after = c.before
                ELSE /\ c.out.exc = NoExc
                     /\ c.out.config = Loaded(c)
                     /\ \E n \in hits :
                            /\ \A m \in hits : n <= m
                            /\ c.out.ret =
                                 PutAt(Loaded(c), SubSeq(P, 1, Len(P) - 1),
                                       P[Len(P)], PyList(Without(old.v, n)))

\* C9 witness: remove-item v1 took the first v1 out of [v1, v2, v1], and the
\* same command for 5, which the list does not hold, ended with
\* ValueNotFound.
C9_Witness ==
    /\ Len(calls) = 2
    /\ key_path = <<"x", ".", "y">>
    /\ calls[1].action = "remove-item" /\ calls[1].value = PyStr(v1)
    /\ ItemsAt(Loaded(calls[1]), P) = <<PyStr(v1), PyStr(v2), PyStr(v1)>>
    /\ ItemsAt(calls[1].out.ret, P) = <<PyStr(v2), PyStr(v1)>>
    /\ calls[2].action = "remove-item" /\ calls[2].value = Five
    /\ calls[2].exit = Exited(1, ValueNotFound)
    /\ calls[2].after = calls[2].before

\* C10: if the list at P (if any) holds no item equal to V, add_item(D, P, V)
\* succeeds, remove_item(_, P, V) right after it succeeds, and the list at P
\* then holds the items D had there, in their order.
C10_AddThenRemoveRestores ==
    \A i \in DOMAIN calls :
        LET c == calls[i]
            old == NodeAt(Loaded(c), P)
            back == remove_item_from_config(c.out.ret, key_path, c.value)
        IN  ( /\ c.action = "add-item"
              /\ old.k = "list" => \A n \in 1..Len(old.v) : ~PyEq(old.v[n], c.value) ) =>
                /\ c.out.exc = NoExc
                /\ back.exc = NoExc
                /\ NodeAt(back.ret, P) = PyList(ItemsAt(Loaded(c), P))

\* r is d after set along comps from segment i on: r is a mapping with d's
\* keys and comps[i]; every other key holds what it held in d; the last
\* segment holds value, and an earlier one a mapping that continues d's
\* mapping there, or a fresh one if d held none.
RECURSIVE SetChain(_, _, _, _, _)
SetChain(d, r, comps, i, value) ==
    /\ r.k = "dict"
    /\ DOMAIN r.v = (DOMAIN d.v) \cup {comps[i]}
    /\ \A key \in (DOMAIN d.v) \ {comps[i]} : r.v[key] = d.v[key]
    /\ IF i = Len(comps) THEN r.v[comps[i]] = value
       ELSE SetChain(IF comps[i] \in DOMAIN d.v /\ d.v[comps[i]].k = "dict"
                     THEN d.v[comps[i]] ELSE EmptyDict,
                     r.v[comps[i]], comps, i + 1, value)

\* C11: set(D, P, V) succeeds and the result holds V at P; every segment
\* before the last holds a mapping, D's own where D had one and a fresh one
\* (the prior value discarded) where the segment was absent or held
\* something else; every key off P's chain is as in D; D itself is
\* unchanged.  Setting the same value again changes nothing, and
\* set("a.b.c", 5) on the empty document gives {a: {b: {c: 5}}}.
C11_SetSemantics ==
    \A i \in DOMAIN calls :
        LET c == calls[i]
            again == set_item_in_config(c.out.ret, key_path, c.value)
        IN  c.action = "set" =>
                /\ c.out.exc = NoExc
                /\ NodeAt(c.out.ret, P) = c.value
                /\ SetChain(Loaded(c), c.out.ret, P, 1, c.value)
                /\ c.out.config = Loaded(c)
                /\ again.exc = NoExc /\ again.ret = c.out.ret
                /\ ( /\ Loaded(c) = EmptyDict
                     /\ key_path = <<"a", ".", "b", ".", "c">>
                     /\ c.value = Five ) =>
                        c.out.ret = Map1("a", Map1("b", Map1("c", Five)))

\* C11 witness: set("a.b", v1) on {x: {y: 5}, a: [5, v1]}: the list at "a"
\* is discarded for a fresh mapping that holds b, and "x" is untouched.
C11_Witness ==
    \E i \in DOMAIN calls :
        /\ calls[i].action = "set"
        /\ key_path = <<"a", ".", "b">>
        /\ Loaded(calls[i]) =
              Map2("x", Map1("y", Five), "a", PyList(<<Five, PyStr(v1)>>))
        /\ calls[i].out.ret =
              Map2("x", Map1("y", Five), "a", Map1("b", PyStr(v1)))

\* C12: no lost update.  Whenever no write command is running, the file
\* holds its initial content with the mutations of exactly the commands that
\* completed successfully applied in the order they acquired the lock.
C12_NoLostUpdate ==
    (\A p \in Procs : pc[p] \notin InLock) => file = applied

====
